---- MODULE Spec2Model ----
(***************************************************************************)
(* The /api/stream-chat request handlers of the CortexLuma backend, in the *)
(* four revisions the repository holds:                                    *)
(*   "r1"   src/server.js:18-53            (history only)                  *)
(*   "r2"   src/server.js:120-202          (history + imageParts)          *)
(*   "v101" src/unnamed/part_000:36-108    (version 1.0.1, fail fast)      *)
(*   "v102" src/unnamed/part_000:215-331   (version 1.0.2, retry)          *)
(* One request is followed from its arrival to the end of its response.    *)
(* A handler is an async function: everything between two awaits is one   *)
(* step.  The upstream SDK call and the stream it returns are the          *)
(* environment: each await resolves or rejects nondeterministically.       *)
(*                                                                         *)
(* JavaScript values are records tagged by t.  A string is                 *)
(* [t |-> "string", s |-> tokens, n |-> length]: s is its content as a     *)
(* sequence of tokens and n its .length; Str(s) is the string spelled out  *)
(* token by token, Rep(c, n) is the token c repeated n times (kept as one  *)
(* run, so that a 15001-character prompt is a small value).                *)
(***************************************************************************)
EXTENDS Integers, Sequences, FiniteSets, TLC

\* ---------------------------------------------------------------- bounds
MaxChunks == 2      \* chunks the upstream stream yields at most
MaxUrlLen == 4      \* tokens of a base64Image data URL at most
MaxSmallHist == 2   \* short histories have 0..MaxSmallHist turns

\* ------------------------------------------------------ program constants
MAX_HISTORY_LENGTH == 50
MAX_TOKEN_ESTIMATE == 10000
MAX_PROMPT_LENGTH == 15000
\* The retry bound set one too high.
RetriesOneTooMany == 3 + 1
MAX_RETRIES == 3
maxRetries == 3
Img2InitialDelay == 1000

\* ------------------------------------------------------------- JS values
Undef == [t |-> "undefined"]
Num(k) == [t |-> "number", k |-> k]
Str(s) == [t |-> "string", s |-> s, n |-> Len(s)]
Rep(c, n) == [t |-> "string", s |-> IF n = 0 THEN <<>> ELSE <<c>>, n |-> n]
Arr(items) == [t |-> "array", items |-> items]

\* ToBoolean: undefined, "" and 0 are falsy; arrays and objects are truthy.
Truthy(v) ==
    CASE v.t = "undefined" -> FALSE
      [] v.t = "string" -> v.n > 0
      [] v.t = "number" -> v.k # 0
      [] OTHER -> TRUE

IsArray(v) == v.t = "array"
IsString(v) == v.t = "string"

\* v.length: the length of an array or a string, undefined for the rest.
Length(v) ==
    CASE v.t = "array" -> Num(Len(v.items))
      [] v.t = "string" -> Num(v.n)
      [] OTHER -> Undef

\* a > b for a possibly undefined a and a number b: undefined > b is false.
GreaterThan(a, b) == a.t = "number" /\ a.k > b

\* [...v]: the elements of an array; the characters of a string.  Spreading
\* anything else throws a TypeError (Iterable is false).
Iterable(v) == v.t \in {"array", "string"}
Spread(v) ==
    IF v.t = "array" THEN v.items
    ELSE [i \in 1..Len(v.s) |-> Str(<<v.s[i]>>)]

\* ------------------------------------------------------- request inputs
Revs == {"r1", "r2", "v101", "v102"}

\* The i-th turn of a conversation: roles alternate, user first, and the
\* text of turn i is unique to i.
Turn(i) ==
    [role |-> IF i % 2 = 1 THEN "user" ELSE "model",
     parts |-> <<[text |-> Rep("h", i)]>>]
Hist(n) == Arr([i \in 1..n |-> Turn(i)])

HistLens == (0..MaxSmallHist) \cup {MAX_HISTORY_LENGTH, MAX_HISTORY_LENGTH + 1}
Histories == {Undef, Num(7)} \cup {Hist(n) : n \in HistLens}

Prompts(max) ==
    {Undef, Num(5), Str(<<>>), Str(<<"q">>), Rep("x", max), Rep("x", max + 1)}

\* req.body.image of version 1.0.1: absent, or an object with or without
\* its data and mimeType fields.
Images ==
    {Undef} \cup
    {[t |-> "object", data |-> d, mimeType |-> m] :
        d \in {Undef, Str(<<"p">>)}, m \in {Undef, Str(<<"m">>)}}

\* req.body.base64Image of version 1.0.2: absent, a non-string, or a string
\* over the tokens "d" (any ordinary character), ":" and ";base64,".
UrlTokens == {"d", ":", ";base64,"}
DataUrls ==
    {Undef, Num(7)} \cup
    {Str(s) : s \in UNION {[1..k -> UrlTokens] : k \in 0..MaxUrlLen}}

InlinePart(tag) == [inlineData |-> [mimeType |-> Str(<<"m">>), data |-> Str(<<tag>>)]]
ImagePartsSet ==
    {Undef, Arr(<<>>), Arr(<<InlinePart("i1")>>),
     Arr(<<InlinePart("i1"), InlinePart("i2")>>)}

Body(h, p, img, url, ips) ==
    [history |-> h, prompt |-> p, image |-> img, base64Image |-> url,
     imageParts |-> ips, message |-> Undef, temperature |-> Undef,
     maxOutputTokens |-> Undef, systemInstruction |-> Undef]

\* A number with one decimal digit, such as 0.7, held in tenths.
Dec(k) == [t |-> "number", tenths |-> k]

\* The generation settings a caller may put in the body: none, all three,
\* a zero temperature with an empty instruction, a fractional token count.
Settings ==
    {[temperature |-> Undef, maxOutputTokens |-> Undef, systemInstruction |-> Undef],
     [temperature |-> Dec(9), maxOutputTokens |-> Num(100),
      systemInstruction |-> Str(<<"s">>)],
     [temperature |-> Dec(0), maxOutputTokens |-> Undef,
      systemInstruction |-> Str(<<>>)],
     [temperature |-> Undef, maxOutputTokens |-> Dec(1005),
      systemInstruction |-> Undef]}

WithSettings(b, g) ==
    [b EXCEPT !.temperature = g.temperature,
              !.maxOutputTokens = g.maxOutputTokens,
              !.systemInstruction = g.systemInstruction]

\* The prompts of /api/generate-image and the messages of /api/chat.
ImagePrompts == {Undef, Num(5), Str(<<>>), Rep("p", 3), Rep("p", 5)}
Messages == {Undef, Str(<<>>), Str(<<"hi">>)}
ImageBody(p) == Body(Undef, p, Undef, Undef, Undef)
ChatBody(m) == [Body(Undef, Undef, Undef, Undef, Undef) EXCEPT !.message = m]

\* The handlers: four revisions of /api/stream-chat (Revs), four of
\* /api/generate-image, and /api/chat.
ImageRevs == {"img1", "img2", "img101", "img102"}
Handlers == Revs \cup ImageRevs \cup {"chat"}

\* The handlers of the revisions that read GEMINI_API_KEY into a constant
\* and check it at startup.
KeyChecked == {"v102", "img102", "chat"}

\* The bodies each revision is sent: the fields it reads vary, the fields
\* it never reads are absent.
Bodies(r) ==
    CASE r = "r1" ->
            {WithSettings(Body(h, Undef, Undef, Undef, Undef), g) :
                h \in Histories, g \in Settings}
      [] r = "r2" ->
            {WithSettings(Body(h, Undef, Undef, Undef, ips), g) :
                h \in Histories, ips \in ImagePartsSet, g \in Settings}
      [] r = "v101" ->
            {Body(h, p, img, Undef, Undef) :
                h \in Histories, p \in Prompts(MAX_TOKEN_ESTIMATE),
                img \in Images}
            \cup {WithSettings(Body(Hist(1), Str(<<"q">>), Undef, Undef, Undef), g) :
                    g \in Settings}
      [] r = "v102" ->
            {Body(h, p, Undef, url, Undef) :
                h \in Histories, p \in Prompts(MAX_PROMPT_LENGTH),
                url \in DataUrls}
            \cup {WithSettings(Body(Hist(1), Str(<<"q">>), Undef, Undef, Undef), g) :
                    g \in Settings}
      [] r \in ImageRevs -> {ImageBody(p) : p \in ImagePrompts}
      [] r = "chat" -> {ChatBody(m) : m \in Messages}

\* ------------------------------------------------------ upstream chunks
Web(uri, title) == [t |-> "object", uri |-> uri, title |-> title]
FullAttr == [web |-> Web(Str(<<"u">>), Str(<<"T">>))]
NoWebAttr == [web |-> Undef]

\* A chunk of the upstream stream: its text (chunk.text) and the grounding
\* attributions it carries, if any.  Version 1.0.1 reads them at
\* chunk.groundingMetadata?.groundingAttributions and version 1.0.2 at
\* chunk.candidates?.[0]?.groundingMetadata?.groundingAttributions: the
\* field stands for the place each version reads.
Chunk(text, attrs) == [text |-> text, attributions |-> attrs]
Chunks ==
    {Chunk(Str(<<"a">>), Undef), Chunk(Str(<<"b">>), Undef),
     Chunk(Str(<<>>), Undef), Chunk(Undef, Undef),
     Chunk(Str(<<"a">>), Arr(<<FullAttr>>)),
     Chunk(Undef, Arr(<<FullAttr>>)),
     Chunk(Undef, Arr(<<NoWebAttr>>))}

\* ----------------------------------------------------------------- state
VARIABLES
    rev,        \* the revision that serves the request
    received,   \* req.body as it arrived
    body,       \* req.body, as the handler's code can see (and change) it
    pc,         \* where the handler is: start, calling, backoff, streaming,
                \* done (returned), unhandled (its promise rejected)
    verdict,    \* the path it took: pending, invalid, completed,
                \* call_failed, stream_failed, threw
                \* (stream-chat); invalid, answered, no_data,
                \* upstream_failed (chat and generate-image)
    status,     \* the HTTP status set on the response, 0 before any
    mode,       \* "none", "json" (res.json sent) or "stream" (streaming
                \* headers set)
    json,       \* the error text of the JSON body sent, <<>> if none
    out,        \* the bytes written to the streamed body, as tokens
    ends,       \* calls of res.end
    calls,      \* calls of ai.models.generateContentStream
    failed,     \* calls of it that rejected
    sent,       \* the contents argument of the latest call
    retries,    \* version 1.0.2's retries counter
    delays,     \* the backoff delays waited, in order
    chunks,     \* the chunks the stream has yielded so far
    keyPresent, \* whether process.env.GEMINI_API_KEY is set
    sentConfig, \* the config argument of the latest call
    answer,     \* the JSON body sent by /api/chat and /api/generate-image
    iLoop,      \* the loop index i of the second generate-image revision
    delay,      \* its delay variable, in ms
    fetchResponse, \* the upstream response the handler holds
    reqs        \* the requests of the two-request specification

vars ==
    <<rev, received, failed, body, pc, verdict, status, mode, json, out, ends, calls, sent,
      retries, delays, chunks, keyPresent, sentConfig, answer, iLoop, delay,
      fetchResponse, reqs>>

\* What the stream-chat handlers never touch.
imageState == <<answer, iLoop, delay, fetchResponse>>

Init ==
    /\ rev \in Handlers
    /\ keyPresent \in (IF rev \in KeyChecked THEN BOOLEAN ELSE {TRUE})
    /\ sentConfig = Undef
    /\ answer = Undef
    /\ iLoop = 0
    /\ delay = 0
    /\ fetchResponse = Undef
    /\ reqs = <<>>
    /\ body \in Bodies(rev)
    /\ received = body
    /\ failed = 0
    /\ pc = "start"
    /\ verdict = "pending"
    /\ status = 0
    /\ mode = "none"
    /\ json = <<>>
    /\ out = <<>>
    /\ ends = 0
    /\ calls = 0
    /\ sent = Undef
    /\ retries = 0
    /\ delays = <<>>
    /\ chunks = <<>>

\* return res.status(code).json({ error: msg })
RespondJson(code, msg) ==
    /\ status' = code
    /\ mode' = "json"
    /\ json' = <<msg>>
    /\ pc' = "done"

\* The text put in front of what was written so far.
WriteTextInFront(o, text) == text.s \o o

\* res.write(text) of a string
WriteText(o, text) == o \o text.s

\* The text of error.message.
ErrorMessage == <<"E">>

\* const contents = items; contents.push(turn): without the copy the push
\* lands on the request's own array.
AliasAndPush(items, turn) ==
    [original |-> Append(items, turn), contents |-> Append(items, turn)]

\* const contents = [...items]; contents.push(turn): the copy grows, the
\* array it was copied from does not.
CopyAndPush(items, turn) ==
    [original |-> items, contents |-> Append(items, turn)]

\* ------------------------------------------------- generation settings
\* The three settings of the config object of a call; a property the
\* object does not have is undefined.
Config(temp, maxTokens, instruction) ==
    [temperature |-> temp, maxOutputTokens |-> maxTokens,
     systemInstruction |-> instruction]

\* parseFloat of a number: the number.
ParseFloat(v) == v

\* parseInt of a number: its integer part.
ParseInt(v) == IF "tenths" \in DOMAIN v THEN Num(v.tenths \div 10) ELSE v

\* The first revision calls with { model, contents }: no config at all.
R1Config == Undef

R2DefaultInstruction == Str(<<"You are Cortex Luma">>)

\* systemInstruction || "<default>"
R2Instruction(instruction) ==
    IF Truthy(instruction) THEN instruction ELSE R2DefaultInstruction

\* The second revision's config.
R2Config(b) ==
    Config(IF b.temperature # Undef THEN ParseFloat(b.temperature) ELSE Dec(7),
           IF b.maxOutputTokens # Undef THEN ParseInt(b.maxOutputTokens)
                                        ELSE Num(2048),
           R2Instruction(b.systemInstruction))

V101Instruction == Str(<<"You are CortexLuma">>)

\* Version 1.0.1: a fixed generationConfig.
V101Config == Config(Dec(2), Undef, V101Instruction)

\* Version 1.0.2: config: { tools } only.
V102Config == Config(Undef, Undef, Undef)

\* --------------------------------------------- version 1.0.1 (fail fast)
V101TypeCheckFails(b) ==
    ~Truthy(b.history) \/ ~IsArray(b.history) \/ ~IsString(b.prompt)

V101BoundCheckFails(b) ==
    \/ GreaterThan(Length(b.history), MAX_HISTORY_LENGTH)
    \/ GreaterThan(Length(b.prompt), MAX_TOKEN_ESTIMATE)

\* userParts: the prompt's text part, then the image's part if the image
\* has both its data and its mimeType.
V101UserParts(b) ==
    <<[text |-> b.prompt]>> \o
    (IF Truthy(b.image) /\ Truthy(b.image.data) /\ Truthy(b.image.mimeType)
     THEN <<[inlineData |->
                [data |-> b.image.data, mimeType |-> b.image.mimeType]]>>
     ELSE <<>>)

V101ErrorMarker == <<"\n", "--ERROR--", "\n">> \o ErrorMessage

\* JSON.stringify of one {uri, title}: an undefined field is left out.
SourceJson(src) ==
    IF Truthy(src.uri) /\ Truthy(src.title) THEN "{uri,title}"
    ELSE IF src.uri.t # "undefined" THEN "{uri}"
    ELSE IF src.title.t # "undefined" THEN "{title}"
    ELSE "{}"

SourcesJson(srcs) == <<"[">> \o [i \in 1..Len(srcs) |-> SourceJson(srcs[i])] \o <<"]">>

\* attr.web.uri throws when an attribution has no web.
V101MapThrows(attrs) == \E i \in 1..Len(attrs) : attrs[i].web.t = "undefined"
V101Sources(attrs) ==
    [i \in 1..Len(attrs) |-> [uri |-> attrs[i].web.uri, title |-> attrs[i].web.title]]
V101SourcesMarker(attrs) ==
    <<"\n", "--SOURCES--", "\n">> \o SourcesJson(V101Sources(attrs))

\* The handler up to its first await: validation, headers, assembly, and
\* the call of generateContentStream.
V101Start ==
    /\ rev = "v101" /\ pc = "start"
    /\ IF V101TypeCheckFails(body)
       THEN /\ RespondJson(400, "Invalid request: history and prompt are required.")
            /\ verdict' = "invalid"
            /\ UNCHANGED <<body, calls, sent, sentConfig>>
       ELSE IF V101BoundCheckFails(body)
       THEN /\ RespondJson(400, "Request exceeds maximum history or prompt length limit.")
            /\ verdict' = "invalid"
            /\ UNCHANGED <<body, calls, sent, sentConfig>>
       ELSE LET r == CopyAndPush(Spread(body.history),
                                 [role |-> "user", parts |-> V101UserParts(body)])
            IN  /\ status' = 200
                /\ mode' = "stream"
                /\ body' = [body EXCEPT !.history = Arr(r.original)]
                /\ calls' = calls + 1
                /\ sent' = Arr(r.contents)
                /\ sentConfig' = V101Config
                /\ pc' = "calling"
                /\ UNCHANGED <<verdict, json>>
    /\ UNCHANGED <<keyPresent, reqs, imageState,
                   rev, received, failed, out, ends, retries, delays, chunks>>

\* await generateContentStream(...) resolves with a stream.
V101CallReturns ==
    /\ rev = "v101" /\ pc = "calling"
    /\ pc' = "streaming"
    /\ UNCHANGED <<keyPresent, reqs, imageState,
                   rev, received, failed, body, verdict, status, mode, json,
                   out, ends, calls, sent, sentConfig, retries, delays, chunks>>

\* await generateContentStream(...) rejects: the catch block.
V101CallFails ==
    /\ rev = "v101" /\ pc = "calling"
    /\ out' = out \o V101ErrorMarker
    /\ ends' = ends + 1
    /\ verdict' = "call_failed"
    /\ pc' = "done"
    /\ failed' = failed + 1
    /\ UNCHANGED <<keyPresent, reqs, imageState,
                   rev, received, body, status, mode, json, calls, sent, sentConfig,
                   retries, delays, chunks>>

\* One iteration of the for await loop.
V101Chunk ==
    /\ rev = "v101" /\ pc = "streaming"
    /\ Len(chunks) < MaxChunks
    /\ \E c \in Chunks :
        LET o1 == IF Truthy(c.text) THEN WriteText(out, c.text) ELSE out
        IN  /\ chunks' = Append(chunks, c)
            /\ IF ~Truthy(c.attributions)
               THEN /\ out' = o1
                    /\ UNCHANGED <<pc, verdict, ends>>
               ELSE IF V101MapThrows(c.attributions.items)
               THEN /\ out' = o1 \o V101ErrorMarker
                    /\ ends' = ends + 1
                    /\ verdict' = "stream_failed"
                    /\ pc' = "done"
               ELSE /\ out' = o1 \o V101SourcesMarker(c.attributions.items)
                    /\ UNCHANGED <<pc, verdict, ends>>
    /\ UNCHANGED <<keyPresent, reqs, imageState,
                   rev, received, failed, body, status, mode, json, calls,
                   sent, sentConfig, retries, delays>>

\* The stream is exhausted: res.end().
V101StreamEnds ==
    /\ rev = "v101" /\ pc = "streaming"
    /\ ends' = ends + 1
    /\ verdict' = "completed"
    /\ pc' = "done"
    /\ UNCHANGED <<keyPresent, reqs, imageState,
                   rev, received, failed, body, status, mode, json, out,
                   calls, sent, sentConfig, retries, delays, chunks>>

\* The stream's iterator throws: the catch block.
V101StreamFails ==
    /\ rev = "v101" /\ pc = "streaming"
    /\ out' = out \o V101ErrorMarker
    /\ ends' = ends + 1
    /\ verdict' = "stream_failed"
    /\ pc' = "done"
    /\ UNCHANGED <<keyPresent, reqs, imageState,
                   rev, received, failed, body, status, mode, json, calls,
                   sent, sentConfig, retries, delays, chunks>>

\* ------------------------------------------------ version 1.0.2 (retry)
\* The index of the first sep in s, 0 if there is none.
FirstIndex(s, sep) ==
    IF \E i \in 1..Len(s) : s[i] = sep
    THEN CHOOSE i \in 1..Len(s) : s[i] = sep /\ \A j \in 1..(i - 1) : s[j] # sep
    ELSE 0

\* String.prototype.split on token sequences: the pieces between the
\* separators, in order; a string without the separator is its only piece.
RECURSIVE Split(_, _)
Split(s, sep) ==
    LET i == FirstIndex(s, sep)
    IN  IF i = 0 THEN <<s>>
        ELSE <<SubSeq(s, 1, i - 1)>> \o Split(SubSeq(s, i + 1, Len(s)), sep)

\* pieces[k] of a destructuring or an index: undefined past the end.
Piece(pieces, k) == IF k <= Len(pieces) THEN Str(pieces[k]) ELSE Undef

\* const [mimeTypePart, base64Data] = base64Image.split(';base64,');
\* const mimeType = mimeTypePart.split(':')[1];
V102ParseImage(url) ==
    LET pieces == Split(url.s, ";base64,")
        mimeTypePart == Piece(pieces, 1)
    IN  [mimeType |-> Piece(Split(mimeTypePart.s, ":"), 2),
         data |-> Piece(pieces, 2)]

\* The try block around the parse throws: split of a non-string, or the
\* explicit throw on an empty or missing mime type or payload.
V102ImageRejected(url) ==
    \/ ~IsString(url)
    \/ ~Truthy(V102ParseImage(url).mimeType)
    \/ ~Truthy(V102ParseImage(url).data)

\* The image part pushed before the text part.
V102UserPartsImageFirst(b) ==
    (IF Truthy(b.base64Image)
     THEN <<[inlineData |-> V102ParseImage(b.base64Image)]>>
     ELSE <<>>)
    \o <<[text |-> b.prompt]>>

V102UserParts(b) ==
    <<[text |-> b.prompt]>> \o
    (IF Truthy(b.base64Image)
     THEN <<[inlineData |-> V102ParseImage(b.base64Image)]>>
     ELSE <<>>)

\* items.slice(-k): the last k items.
SliceLast(items, k) ==
    IF Len(items) <= k THEN items
    ELSE SubSeq(items, Len(items) - k + 1, Len(items))

\* history ? [...history].slice(-MAX_HISTORY_LENGTH) : []
V102ChatHistory(h) ==
    IF Truthy(h) THEN SliceLast(Spread(h), MAX_HISTORY_LENGTH) ELSE <<>>

\* Math.pow(2, retries) * 1000
V102Delay(n) == (2 ^ n) * 1000

\* The marker sent by a write and again by the end.
V102CallErrorMarkerTwice ==
    <<"[STREAM_ERROR]", " Gemini API failed: ", "E",
      "[STREAM_ERROR]", " Gemini API failed: ", "E">>
V102CallErrorMarker == <<"[STREAM_ERROR]", " Gemini API failed: ">> \o ErrorMessage
V102StreamErrorMarker ==
    <<"\n", "[STREAM_ERROR]", " Streaming connection lost: ">> \o ErrorMessage

\* attr.web?.uri and attr.web?.title
V102Source(attr) ==
    IF attr.web.t = "undefined" THEN [uri |-> Undef, title |-> Undef]
    ELSE [uri |-> attr.web.uri, title |-> attr.web.title]
V102Kept(src) == Truthy(src.uri) /\ Truthy(src.title)
V102Sources(attrs) ==
    SelectSeq([i \in 1..Len(attrs) |-> V102Source(attrs[i])], V102Kept)
V102MetadataMarker(srcs) ==
    <<"\n", "[METADATA]", "{sources:">> \o SourcesJson(srcs) \o <<"}">>

\* The handler up to its first await: validation, assembly, headers, and
\* the first call of generateContentStream.
V102Start ==
    /\ rev = "v102" /\ pc = "start"
    /\ IF ~Truthy(body.prompt)
       THEN /\ RespondJson(400, "Prompt is required.")
            /\ verdict' = "invalid"
            /\ UNCHANGED <<calls, sent, sentConfig>>
       ELSE IF GreaterThan(Length(body.prompt), MAX_PROMPT_LENGTH)
       THEN /\ RespondJson(400, "Prompt exceeds maximum length of 15000 characters.")
            /\ verdict' = "invalid"
            /\ UNCHANGED <<calls, sent, sentConfig>>
       ELSE IF Truthy(body.history) /\ ~Iterable(body.history)
       THEN \* [...history] throws outside any try: the handler's promise
            \* rejects and nothing answers the request.
            /\ pc' = "unhandled"
            /\ verdict' = "threw"
            /\ UNCHANGED <<status, mode, json, calls, sent, sentConfig>>
       ELSE IF Truthy(body.base64Image) /\ V102ImageRejected(body.base64Image)
       THEN /\ RespondJson(400, "Invalid image data provided.")
            /\ verdict' = "invalid"
            /\ UNCHANGED <<calls, sent, sentConfig>>
       ELSE /\ status' = 200
            /\ mode' = "stream"
            /\ calls' = calls + 1
            /\ sent' = Arr(Append(V102ChatHistory(body.history),
                                  [role |-> "user", parts |-> V102UserParts(body)]))
            /\ sentConfig' = V102Config
            /\ pc' = "calling"
            /\ UNCHANGED <<verdict, json>>
    /\ UNCHANGED <<keyPresent, reqs, imageState,
                   rev, received, failed, body, out, ends, retries, delays,
                   chunks>>

\* await generateContentStream(...) resolves: break out of the retry loop.
V102CallReturns ==
    /\ rev = "v102" /\ pc = "calling"
    /\ keyPresent
    /\ pc' = "streaming"
    /\ UNCHANGED <<keyPresent, reqs, imageState,
                   rev, received, failed, body, verdict, status, mode, json,
                   out, ends, calls, sent, sentConfig, retries, delays, chunks>>

\* await generateContentStream(...) rejects: the catch block of the loop.
V102CallFails ==
    /\ rev = "v102" /\ pc = "calling"
    /\ retries' = retries + 1
    /\ IF retries + 1 >= MAX_RETRIES
       THEN /\ out' = out \o V102CallErrorMarker
            /\ ends' = ends + 1
            /\ verdict' = "call_failed"
            /\ pc' = "done"
            /\ UNCHANGED delays
       ELSE /\ delays' = Append(delays, V102Delay(retries + 1))
            /\ pc' = "backoff"
            /\ UNCHANGED <<out, ends, verdict>>
    /\ failed' = failed + 1
    /\ UNCHANGED <<keyPresent, reqs, imageState,
                   rev, received, body, status, mode, json, calls, sent, sentConfig,
                   chunks>>

V102NoStreamMarker == <<"[STREAM_ERROR]", " Could not initialize Gemini stream.">>

\* The backoff timer fires: the while condition is tested again; the loop
\* goes round and calls again, or it is left without a stream and the
\* safeguard ends the response.
V102BackoffElapsed ==
    /\ rev = "v102" /\ pc = "backoff"
    /\ IF retries < MAX_RETRIES
       THEN /\ calls' = calls + 1
            /\ pc' = "calling"
            /\ UNCHANGED <<out, ends, verdict>>
       ELSE /\ out' = out \o V102NoStreamMarker
            /\ ends' = ends + 1
            /\ verdict' = "call_failed"
            /\ pc' = "done"
            /\ UNCHANGED calls
    /\ UNCHANGED <<keyPresent, reqs, imageState,
                   rev, received, failed, body, status, mode, json, sent, sentConfig,
                   retries, delays, chunks>>

\* One iteration of the for await loop.
V102Chunk ==
    /\ rev = "v102" /\ pc = "streaming"
    /\ Len(chunks) < MaxChunks
    /\ \E c \in Chunks :
        LET o1 == IF Truthy(c.text) THEN WriteText(out, c.text) ELSE out
            srcs == V102Sources(c.attributions.items)
        IN  /\ chunks' = Append(chunks, c)
            /\ out' = IF Truthy(c.attributions) /\ Len(srcs) > 0
                      THEN o1 \o V102MetadataMarker(srcs)
                      ELSE o1
    /\ UNCHANGED <<keyPresent, reqs, imageState,
                   rev, received, failed, body, pc, verdict, status, mode,
                   json, ends, calls, sent, sentConfig, retries, delays>>

\* The stream is exhausted: the finally block's res.end().
V102StreamEnds ==
    /\ rev = "v102" /\ pc = "streaming"
    /\ ends' = ends + 1
    /\ verdict' = "completed"
    /\ pc' = "done"
    /\ UNCHANGED <<keyPresent, reqs, imageState,
                   rev, received, failed, body, status, mode, json, out,
                   calls, sent, sentConfig, retries, delays, chunks>>

\* The stream's iterator throws: the catch block's res.end(marker), then
\* the finally block's res.end().
V102StreamFails ==
    /\ rev = "v102" /\ pc = "streaming"
    /\ out' = out \o V102StreamErrorMarker
    /\ ends' = ends + 2
    /\ verdict' = "stream_failed"
    /\ pc' = "done"
    /\ UNCHANGED <<keyPresent, reqs, imageState,
                   rev, received, failed, body, status, mode, json, calls,
                   sent, sentConfig, retries, delays, chunks>>

\* ------------------------------------- first revision (history only)
\* !history || history.length === 0
HistoryMissing(h) == ~Truthy(h) \/ Length(h) = Num(0)

R1EmptyHistoryText == <<"Error: Conversation history is empty.">>
\* The catch block only logs: nothing is written.
R1ErrorTextSwallowed == <<>>
R1ErrorText == <<"Error: An internal API error occurred: ">> \o ErrorMessage

\* The handler up to its first await: headers, the history check, and the
\* call of generateContentStream with the history as it came.
R1Start ==
    /\ rev = "r1" /\ pc = "start"
    /\ status' = 200
    /\ mode' = "stream"
    /\ IF HistoryMissing(body.history)
       THEN /\ out' = out \o R1EmptyHistoryText
            /\ ends' = ends + 1
            /\ verdict' = "invalid"
            /\ pc' = "done"
            /\ UNCHANGED <<calls, sent, sentConfig>>
       ELSE /\ calls' = calls + 1
            /\ sent' = body.history
            /\ sentConfig' = R1Config
            /\ pc' = "calling"
            /\ UNCHANGED <<out, ends, verdict>>
    /\ UNCHANGED <<keyPresent, reqs, imageState,
                   rev, received, failed, body, json, retries, delays,
                   chunks>>

\* await generateContentStream(...) resolves with a stream.
R1CallReturns ==
    /\ rev = "r1" /\ pc = "calling"
    /\ pc' = "streaming"
    /\ UNCHANGED <<keyPresent, reqs, imageState,
                   rev, received, failed, body, verdict, status, mode, json,
                   out, ends, calls, sent, sentConfig, retries, delays, chunks>>

\* await generateContentStream(...) rejects: catch, then finally.
R1CallFails ==
    /\ rev = "r1" /\ pc = "calling"
    /\ out' = out \o R1ErrorText
    /\ ends' = ends + 1
    /\ verdict' = "call_failed"
    /\ pc' = "done"
    /\ failed' = failed + 1
    /\ UNCHANGED <<keyPresent, reqs, imageState,
                   rev, received, body, status, mode, json, calls, sent, sentConfig,
                   retries, delays, chunks>>

\* One iteration of the for await loop.
R1Chunk ==
    /\ rev = "r1" /\ pc = "streaming"
    /\ Len(chunks) < MaxChunks
    /\ \E c \in Chunks :
        /\ chunks' = Append(chunks, c)
        /\ out' = IF Truthy(c.text) THEN WriteText(out, c.text) ELSE out
    /\ UNCHANGED <<keyPresent, reqs, imageState,
                   rev, received, failed, body, pc, verdict, status, mode,
                   json, ends, calls, sent, sentConfig, retries, delays>>

\* The stream is exhausted: the finally block's res.end().
R1StreamEnds ==
    /\ rev = "r1" /\ pc = "streaming"
    /\ ends' = ends + 1
    /\ verdict' = "completed"
    /\ pc' = "done"
    /\ UNCHANGED <<keyPresent, reqs, imageState,
                   rev, received, failed, body, status, mode, json, out,
                   calls, sent, sentConfig, retries, delays, chunks>>

\* The stream's iterator throws: catch, then finally.
R1StreamFails ==
    /\ rev = "r1" /\ pc = "streaming"
    /\ out' = out \o R1ErrorText
    /\ ends' = ends + 1
    /\ verdict' = "stream_failed"
    /\ pc' = "done"
    /\ UNCHANGED <<keyPresent, reqs, imageState,
                   rev, received, failed, body, status, mode, json, calls,
                   sent, sentConfig, retries, delays, chunks>>

\* ------------------------------ second revision (history + imageParts)
R2EmptyHistoryText == <<"Error: Chat history is required.">>
R2ErrorText ==
    <<"Error: An internal API error occurred. Please check the backend's GEMINI_API_KEY and logs. Details: ">>
    \o ErrorMessage

\* imageParts && imageParts.length > 0
R2HasImages(ips) == Truthy(ips) /\ GreaterThan(Length(ips), 0)

\* The merge that always puts the image parts in a turn of their own.
R2MergeAsNewTurn(items, ips) ==
    IF ~R2HasImages(ips)
    THEN [original |-> items, contents |-> items]
    ELSE [original |-> items,
          contents |-> Append(items, [role |-> "user", parts |-> ips.items])]

\* const contents = [...history], then the merge of imageParts.  The copy
\* is shallow: a push onto the last turn's parts is a push onto the turn
\* of the request's history too.  Gives both arrays after the merge.
R2Merge(items, ips) ==
    LET last == Len(items)
    IN  IF ~R2HasImages(ips)
        THEN [original |-> items, contents |-> items]
        ELSE IF last >= 1 /\ items[last].role = "user"
        THEN LET merged ==
                    [items EXCEPT ![last].parts = items[last].parts \o ips.items]
             IN  [original |-> merged, contents |-> merged]
        ELSE [original |-> items,
              contents |-> Append(items, [role |-> "user", parts |-> ips.items])]

\* The handler up to its first await.
R2Start ==
    /\ rev = "r2" /\ pc = "start"
    /\ status' = 200
    /\ mode' = "stream"
    /\ IF HistoryMissing(body.history)
       THEN /\ out' = out \o R2EmptyHistoryText
            /\ ends' = ends + 1
            /\ verdict' = "invalid"
            /\ pc' = "done"
            /\ UNCHANGED <<body, calls, sent, sentConfig>>
       ELSE IF ~Iterable(body.history)
       THEN \* [...history] throws outside the try: the handler's promise
            \* rejects with the headers sent and the response never ended.
            /\ pc' = "unhandled"
            /\ verdict' = "threw"
            /\ UNCHANGED <<body, out, ends, calls, sent, sentConfig>>
       ELSE LET r == R2Merge(Spread(body.history), body.imageParts)
            IN  /\ body' = [body EXCEPT !.history = Arr(r.original)]
                /\ calls' = calls + 1
                /\ sent' = Arr(r.contents)
                /\ sentConfig' = R2Config(body)
                /\ pc' = "calling"
                /\ UNCHANGED <<out, ends, verdict>>
    /\ UNCHANGED <<keyPresent, reqs, imageState,
                   rev, received, failed, json, retries, delays, chunks>>

R2CallReturns ==
    /\ rev = "r2" /\ pc = "calling"
    /\ pc' = "streaming"
    /\ UNCHANGED <<keyPresent, reqs, imageState,
                   rev, received, failed, body, verdict, status, mode, json,
                   out, ends, calls, sent, sentConfig, retries, delays, chunks>>

R2CallFails ==
    /\ rev = "r2" /\ pc = "calling"
    /\ out' = out \o R2ErrorText
    /\ ends' = ends + 1
    /\ verdict' = "call_failed"
    /\ pc' = "done"
    /\ failed' = failed + 1
    /\ UNCHANGED <<keyPresent, reqs, imageState,
                   rev, received, body, status, mode, json, calls, sent, sentConfig,
                   retries, delays, chunks>>

R2Chunk ==
    /\ rev = "r2" /\ pc = "streaming"
    /\ Len(chunks) < MaxChunks
    /\ \E c \in Chunks :
        /\ chunks' = Append(chunks, c)
        /\ out' = IF Truthy(c.text) THEN WriteText(out, c.text) ELSE out
    /\ UNCHANGED <<keyPresent, reqs, imageState,
                   rev, received, failed, body, pc, verdict, status, mode,
                   json, ends, calls, sent, sentConfig, retries, delays>>

R2StreamEnds ==
    /\ rev = "r2" /\ pc = "streaming"
    /\ ends' = ends + 1
    /\ verdict' = "completed"
    /\ pc' = "done"
    /\ UNCHANGED <<keyPresent, reqs, imageState,
                   rev, received, failed, body, status, mode, json, out,
                   calls, sent, sentConfig, retries, delays, chunks>>

R2StreamFails ==
    /\ rev = "r2" /\ pc = "streaming"
    /\ out' = out \o R2ErrorText
    /\ ends' = ends + 1
    /\ verdict' = "stream_failed"
    /\ pc' = "done"
    /\ UNCHANGED <<keyPresent, reqs, imageState,
                   rev, received, failed, body, status, mode, json, calls,
                   sent, sentConfig, retries, delays, chunks>>

\* ------------------------------------------------- upstream HTTP bodies
\* The JSON body of an upstream HTTP response, as far as the handlers read
\* it: predictions (of a success), error (of a failure), candidates (of
\* generateContent).  NotJson is a body response.json() rejects.
JsonBody(predictions, error, candidates) ==
    [t |-> "object", predictions |-> predictions, error |-> error,
     candidates |-> candidates]
NotJson == [t |-> "text"]
Prediction(bytes) == [bytesBase64Encoded |-> bytes]
WithImage == JsonBody(Arr(<<Prediction(Str(<<"B">>))>>), Undef, Undef)
EmptyBytes == JsonBody(Arr(<<Prediction(Str(<<>>))>>), Undef, Undef)
NoPredictions == JsonBody(Undef, Undef, Undef)
ZeroPredictions == JsonBody(Arr(<<>>), Undef, Undef)
ErrorBody == JsonBody(Undef, [t |-> "object", message |-> Str(<<"M">>)], Undef)
WithReply == JsonBody(Undef, Undef, Arr(<<[text |-> Str(<<"R">>)]>>))

FetchResponse(ok, st, b) == [ok |-> ok, status |-> st, body |-> b]
FailStatuses == {400, 429, 500}
ImageResponses ==
    {FetchResponse(TRUE, 200, b) :
        b \in {WithImage, EmptyBytes, NoPredictions, ZeroPredictions, NotJson}}
    \cup {FetchResponse(FALSE, st, b) :
            st \in FailStatuses, b \in {ErrorBody, NoPredictions, NotJson}}
ChatResponses ==
    {FetchResponse(TRUE, 200, b) : b \in {WithReply, NoPredictions, NotJson}}
    \cup {FetchResponse(FALSE, st, b) :
            st \in FailStatuses, b \in {ErrorBody, NotJson}}

\* Without the key the provider answers no request with success.
Answerable(resp) == resp.ok => keyPresent

\* The message of the SyntaxError of response.json() and of a TypeError.
JsonErrorMessage == <<"Unexpected token">>
TypeErrorMessage == <<"Cannot read properties of undefined">>

\* result?.predictions?.[0]?.bytesBase64Encoded
Base64Data(result) ==
    IF result.predictions = Undef THEN Undef
    ELSE IF Len(result.predictions.items) = 0 THEN Undef
    ELSE result.predictions.items[1].bytesBase64Encoded

\* errorBody.error?.message || fallback
ProviderMessage(errorBody, fallback) ==
    IF errorBody.error # Undef /\ Truthy(errorBody.error.message)
    THEN errorBody.error.message.s
    ELSE <<fallback>>

\* res.status(code).json(obj)
SendJson(code, obj) ==
    /\ status' = code
    /\ mode' = "json"
    /\ answer' = obj
    /\ json' = IF "error" \in DOMAIN obj THEN obj.error ELSE <<>>
    /\ pc' = "done"

\* { imageUrl: `data:image/png;base64,${base64Data}` }
ImageUrlBody(base64Data) ==
    [imageUrl |-> <<"data:image/png;base64,">> \o base64Data.s]

\* The end of the three fetch-based generate-image handlers, from the
\* parsing of a successful response on.
RespondWithResult(resp) ==
    IF resp.body = NotJson
    THEN /\ SendJson(500, [error |-> <<"Image generation failed: ">>
                                        \o JsonErrorMessage])
         /\ verdict' = "upstream_failed"
    ELSE IF Truthy(Base64Data(resp.body))
    THEN /\ SendJson(200, ImageUrlBody(Base64Data(resp.body)))
         /\ verdict' = "answered"
    ELSE /\ SendJson(500,
                [error |-> <<"Image generation failed: No image data received.">>])
         /\ verdict' = "no_data"

\* The catch block of the fetch-based generate-image handlers.
RespondWithError(message) ==
    /\ SendJson(500, [error |-> <<"Image generation failed: ">> \o message])
    /\ verdict' = "upstream_failed"

\* The error thrown for a response that is not ok, versions 1.0.1, 1.0.2.
ExternalError(resp, fallback) ==
    IF resp.body = NotJson THEN JsonErrorMessage
    ELSE <<"External Image API Error (", ToString(resp.status), "): ">>
            \o ProviderMessage(resp.body, fallback)

\* ------------------------------------- generate-image, first revision
\* What ai.models.generateImages resolves with: response.generatedImages.
Generated(bytes, mime) == [image |-> [imageBytes |-> bytes, mimeType |-> mime]]
Img1Responses ==
    {Undef, Arr(<<>>), Arr(<<Generated(Str(<<"B">>), Str(<<"image/png">>))>>),
     Arr(<<Generated(Undef, Undef)>>)}

Img1Start ==
    /\ rev = "img1" /\ pc = "start"
    /\ IF ~Truthy(body.prompt)
       THEN /\ SendJson(400, [error |-> <<"Image prompt is required.">>])
            /\ verdict' = "invalid"
            /\ UNCHANGED calls
       ELSE /\ calls' = calls + 1
            /\ pc' = "calling"
            /\ UNCHANGED <<status, mode, answer, json, verdict>>
    /\ UNCHANGED <<keyPresent, reqs, rev, received, body, failed, out, ends,
                   sent, sentConfig, retries, delays, chunks, iLoop, delay,
                   fetchResponse>>

Img1Resolves ==
    /\ rev = "img1" /\ pc = "calling"
    /\ \E generatedImages \in Img1Responses :
          /\ fetchResponse' = generatedImages
          /\ IF generatedImages = Undef \/ Len(generatedImages.items) = 0
             THEN \* generatedImages[0] or firstImage.image throws
                  /\ SendJson(500,
                        [error |-> <<"Image generation failed. ", "Details: ">>
                                      \o TypeErrorMessage])
                  /\ verdict' = "upstream_failed"
             ELSE LET firstImage == generatedImages.items[1]
                  IN  /\ SendJson(200,
                            [image |-> [data |-> firstImage.image.imageBytes,
                                        mimeType |-> firstImage.image.mimeType]])
                      /\ verdict' = "answered"
    /\ UNCHANGED <<keyPresent, reqs, rev, received, body, failed, out, ends,
                   calls, sent, sentConfig, retries, delays, chunks, iLoop, delay>>

Img1Rejects ==
    /\ rev = "img1" /\ pc = "calling"
    /\ SendJson(500, [error |-> <<"Image generation failed. ", "Details: ">>
                                    \o ErrorMessage])
    /\ verdict' = "upstream_failed"
    /\ failed' = failed + 1
    /\ UNCHANGED <<keyPresent, reqs, rev, received, body, out, ends, calls,
                   sent, sentConfig, retries, delays, chunks, iLoop, delay,
                   fetchResponse>>

\* ------------------------------------ generate-image, second revision
Retryable(st) == st = 429 \/ st >= 500

\* The error the body of the inner try throws for a response not ok.
Img2Thrown(resp) ==
    IF Retryable(resp.status)
    THEN <<"API failed after ", ToString(maxRetries), " retries with status: ",
           ToString(resp.status)>>
    ELSE ExternalError(resp, "Unknown error")

Img2Start ==
    /\ rev = "img2" /\ pc = "start"
    /\ IF ~Truthy(body.prompt)
       THEN /\ SendJson(400, [error |-> <<"Prompt is required for image generation.">>])
            /\ verdict' = "invalid"
            /\ UNCHANGED <<calls, iLoop, delay>>
       ELSE /\ iLoop' = 0
            /\ delay' = Img2InitialDelay
            /\ calls' = calls + 1
            /\ pc' = "calling"
            /\ UNCHANGED <<status, mode, answer, json, verdict>>
    /\ UNCHANGED <<keyPresent, reqs, rev, received, body, failed, out, ends,
                   sent, sentConfig, retries, delays, chunks, fetchResponse>>

\* await fetch(...) resolves: the rest of the loop body, and on a break the
\* rest of the handler.
Img2FetchResolves ==
    /\ rev = "img2" /\ pc = "calling"
    /\ \E resp \in ImageResponses :
          /\ fetchResponse' = resp
          /\ IF resp.ok
             THEN /\ RespondWithResult(resp)
                  /\ UNCHANGED failed
             ELSE /\ failed' = failed + 1
                  /\ IF iLoop # maxRetries - 1
                     THEN \* the retryable branch waits; the error the
                          \* non-retryable branch throws lands in the
                          \* inner catch, which waits as well
                          /\ pc' = "backoff"
                          /\ UNCHANGED <<status, mode, answer, json, verdict>>
                     ELSE RespondWithError(Img2Thrown(resp))
    /\ UNCHANGED <<keyPresent, reqs, rev, received, body, out, ends, calls,
                   sent, sentConfig, retries, delays, chunks, iLoop, delay>>

\* await fetch(...) rejects: the inner catch.
Img2FetchRejects ==
    /\ rev = "img2" /\ pc = "calling"
    /\ failed' = failed + 1
    /\ IF iLoop = maxRetries - 1
       THEN RespondWithError(ErrorMessage)
       ELSE /\ pc' = "backoff"
            /\ UNCHANGED <<status, mode, answer, json, verdict>>
    /\ UNCHANGED <<keyPresent, reqs, rev, received, body, out, ends, calls,
                   sent, sentConfig, retries, delays, chunks, iLoop, delay,
                   fetchResponse>>

\* The timeout of `delay` ms fires: delay *= 2, i++, and the next fetch.
Img2BackoffElapsed ==
    /\ rev = "img2" /\ pc = "backoff"
    /\ delays' = Append(delays, delay)
    /\ delay' = delay * 2
    /\ iLoop' = iLoop + 1
    /\ calls' = calls + 1
    /\ pc' = "calling"
    /\ UNCHANGED <<keyPresent, reqs, rev, received, body, failed, out, ends,
                   sent, sentConfig, retries, chunks, fetchResponse, status,
                   mode, answer, json, verdict>>

\* ----------------------------- generate-image, versions 1.0.1 and 1.0.2
Img101PromptRejected(prompt) ==
    ~Truthy(prompt) \/ ~IsString(prompt) \/ prompt.n < 5

\* await fetch(...) resolved: the rest of the single-fetch handlers.
SingleFetchResolved(resp) ==
    /\ fetchResponse' = resp
    /\ IF resp.ok
       THEN /\ RespondWithResult(resp)
            /\ UNCHANGED failed
       ELSE /\ RespondWithError(ExternalError(resp, "Unknown error from Imagen API"))
            /\ failed' = failed + 1

Img101Start ==
    /\ rev = "img101" /\ pc = "start"
    /\ IF Img101PromptRejected(body.prompt)
       THEN /\ SendJson(400,
                [error |-> <<"Invalid prompt. Please provide a descriptive prompt.">>])
            /\ verdict' = "invalid"
            /\ UNCHANGED calls
       ELSE /\ calls' = calls + 1
            /\ pc' = "calling"
            /\ UNCHANGED <<status, mode, answer, json, verdict>>
    /\ UNCHANGED <<keyPresent, reqs, rev, received, body, failed, out, ends,
                   sent, sentConfig, retries, delays, chunks, iLoop, delay,
                   fetchResponse>>

Img101FetchResolves ==
    /\ rev = "img101" /\ pc = "calling"
    /\ \E resp \in ImageResponses : SingleFetchResolved(resp)
    /\ UNCHANGED <<keyPresent, reqs, rev, received, body, out, ends, calls,
                   sent, sentConfig, retries, delays, chunks, iLoop, delay>>

Img101FetchRejects ==
    /\ rev = "img101" /\ pc = "calling"
    /\ RespondWithError(ErrorMessage)
    /\ failed' = failed + 1
    /\ UNCHANGED <<keyPresent, reqs, rev, received, body, out, ends, calls,
                   sent, sentConfig, retries, delays, chunks, iLoop, delay,
                   fetchResponse>>

Img102Start ==
    /\ rev = "img102" /\ pc = "start"
    /\ IF ~Truthy(body.prompt)
       THEN /\ SendJson(400, [error |-> <<"Prompt is required for image generation.">>])
            /\ verdict' = "invalid"
            /\ UNCHANGED calls
       ELSE /\ calls' = calls + 1
            /\ pc' = "calling"
            /\ UNCHANGED <<status, mode, answer, json, verdict>>
    /\ UNCHANGED <<keyPresent, reqs, rev, received, body, failed, out, ends,
                   sent, sentConfig, retries, delays, chunks, iLoop, delay,
                   fetchResponse>>

Img102FetchResolves ==
    /\ rev = "img102" /\ pc = "calling"
    /\ \E resp \in ImageResponses :
          /\ Answerable(resp)
          /\ SingleFetchResolved(resp)
    /\ UNCHANGED <<keyPresent, reqs, rev, received, body, out, ends, calls,
                   sent, sentConfig, retries, delays, chunks, iLoop, delay>>

Img102FetchRejects ==
    /\ rev = "img102" /\ pc = "calling"
    /\ RespondWithError(ErrorMessage)
    /\ failed' = failed + 1
    /\ UNCHANGED <<keyPresent, reqs, rev, received, body, out, ends, calls,
                   sent, sentConfig, retries, delays, chunks, iLoop, delay,
                   fetchResponse>>

\* ------------------------------------------------------------ /api/chat
\* The reply left empty whatever the upstream data holds.
ChatReplyDropped(data) == Str(<<>>)

\* data?.candidates?.[0]?.content?.parts?.[0]?.text || "": a candidate
\* stands for its first part's text.
ChatReply(data) ==
    IF data.candidates = Undef THEN Str(<<>>)
    ELSE IF Len(data.candidates.items) = 0 THEN Str(<<>>)
    ELSE IF Truthy(data.candidates.items[1].text)
         THEN data.candidates.items[1].text
         ELSE Str(<<>>)

ChatStart ==
    /\ rev = "chat" /\ pc = "start"
    /\ IF ~Truthy(body.message)
       THEN /\ SendJson(400, [error |-> <<"message is required">>])
            /\ verdict' = "invalid"
            /\ UNCHANGED calls
       ELSE /\ calls' = calls + 1
            /\ pc' = "calling"
            /\ UNCHANGED <<status, mode, answer, json, verdict>>
    /\ UNCHANGED <<keyPresent, reqs, rev, received, body, failed, out, ends,
                   sent, sentConfig, retries, delays, chunks, iLoop, delay,
                   fetchResponse>>

ChatFetchResolves ==
    /\ rev = "chat" /\ pc = "calling"
    /\ \E resp \in ChatResponses :
          /\ Answerable(resp)
          /\ fetchResponse' = resp
          /\ IF ~resp.ok
             THEN /\ SendJson(502, [error |-> <<"Upstream API error">>,
                                    status |-> resp.status,
                                    details |-> resp.body])
                  /\ verdict' = "upstream_failed"
                  /\ failed' = failed + 1
             ELSE IF resp.body = NotJson
             THEN /\ SendJson(500, [error |-> <<"Internal server error">>])
                  /\ verdict' = "upstream_failed"
                  /\ UNCHANGED failed
             ELSE /\ SendJson(200, [reply |-> ChatReply(resp.body),
                                    raw |-> resp.body])
                  /\ verdict' = "answered"
                  /\ UNCHANGED failed
    /\ UNCHANGED <<keyPresent, reqs, rev, received, body, out, ends, calls,
                   sent, sentConfig, retries, delays, chunks, iLoop, delay>>

ChatFetchRejects ==
    /\ rev = "chat" /\ pc = "calling"
    /\ SendJson(500, [error |-> <<"Internal server error">>])
    /\ verdict' = "upstream_failed"
    /\ failed' = failed + 1
    /\ UNCHANGED <<keyPresent, reqs, rev, received, body, out, ends, calls,
                   sent, sentConfig, retries, delays, chunks, iLoop, delay,
                   fetchResponse>>

Next ==
    \/ R1Start
    \/ R1CallReturns
    \/ R1CallFails
    \/ R1Chunk
    \/ R1StreamEnds
    \/ R1StreamFails
    \/ R2Start
    \/ R2CallReturns
    \/ R2CallFails
    \/ R2Chunk
    \/ R2StreamEnds
    \/ R2StreamFails
    \/ V101Start
    \/ V101CallReturns
    \/ V101CallFails
    \/ V101Chunk
    \/ V101StreamEnds
    \/ V101StreamFails
    \/ V102Start
    \/ V102CallReturns
    \/ V102CallFails
    \/ V102BackoffElapsed
    \/ V102Chunk
    \/ V102StreamEnds
    \/ V102StreamFails
    \/ Img1Start
    \/ Img1Resolves
    \/ Img1Rejects
    \/ Img2Start
    \/ Img2FetchResolves
    \/ Img2FetchRejects
    \/ Img2BackoffElapsed
    \/ Img101Start
    \/ Img101FetchResolves
    \/ Img101FetchRejects
    \/ Img102Start
    \/ Img102FetchResolves
    \/ Img102FetchRejects
    \/ ChatStart
    \/ ChatFetchResolves
    \/ ChatFetchRejects

Spec == Init /\ [][Next]_vars

\* ---------------------------- one request to stream-chat 1.0.2, fairly
\* The requests of the fair specification: history absent, not iterable or
\* an array; prompt absent, short or too long; image absent, not a string
\* or a well-formed data URL.
LiveBodies ==
    {Body(h, p, Undef, url, Undef) :
        h \in {Undef, Num(7), Hist(1)},
        p \in {Undef, Str(<<"q">>), Rep("x", MAX_PROMPT_LENGTH + 1)},
        url \in {Undef, Num(7), Str(<<":", "d", ";base64,", "d">>)}}

InitLive ==
    /\ Init
    /\ rev = "v102"
    /\ body \in LiveBodies

NextLive ==
    \/ V102Start
    \/ V102CallReturns
    \/ V102CallFails
    \/ V102BackoffElapsed
    \/ V102Chunk
    \/ V102StreamEnds
    \/ V102StreamFails

\* The handler runs when the request arrives; each upstream call returns
\* or fails; each backoff timer fires; the upstream stream yields its next
\* chunk, ends or fails.
FairV102 ==
    /\ WF_vars(V102Start)
    /\ WF_vars(V102CallReturns \/ V102CallFails)
    /\ WF_vars(V102BackoffElapsed)
    /\ WF_vars(V102Chunk \/ V102StreamEnds \/ V102StreamFails)

SpecLive == InitLive /\ [][NextLive]_vars /\ FairV102

\* ------------------------------ two requests to stream-chat 1.0.2 at once
\* Two invocations of the version 1.0.2 handler, interleaved at their
\* awaits.  Each has its own record in reqs; the variables of the
\* single-request specification stay as they are.
Requests == 1..2
MaxChunksTwo == 1   \* chunks each of the two streams yields at most

\* The text the upstream stream of request k yields.
Tag(k) == IF k = 1 THEN "a" ELSE "b"
TwoChunks(k) ==
    {Chunk(Str(<<Tag(k)>>), Undef), Chunk(Str(<<Tag(k)>>), Arr(<<FullAttr>>))}

TwoBodies ==
    {Body(Undef, Undef, Undef, Undef, Undef),
     Body(Hist(1), Str(<<"q">>), Undef, Undef, Undef),
     Body(Hist(2), Str(<<"q">>), Undef, Str(<<"d", ":", "d", ";base64,", "d">>), Undef)}

NewRequest(b) ==
    [body |-> b, pc |-> "start", verdict |-> "pending", status |-> 0,
     mode |-> "none", json |-> <<>>, out |-> <<>>, ends |-> 0, calls |-> 0,
     failed |-> 0, sent |-> Undef, retries |-> 0, delays |-> <<>>,
     chunks |-> <<>>]

\* One retries counter for all invocations, as a module-level variable
\* would be.
SharedRetriesCell(k) == 1

\* `let retries = 0` is declared in the handler's body: the counter
\* invocation k reads and writes is its own.
RetriesCell(k) == k

Retries(k) == reqs[RetriesCell(k)].retries

\* Invocation k goes on as r, with n in its retries counter.
Becomes(k, r, n) ==
    reqs' = [[reqs EXCEPT ![k] = r] EXCEPT ![RetriesCell(k)].retries = n]

singleVars ==
    <<rev, received, failed, body, pc, verdict, status, mode, json, out, ends,
      calls, sent, retries, delays, chunks, keyPresent, sentConfig, answer,
      iLoop, delay, fetchResponse>>

InitTwo ==
    /\ rev = "v102"
    /\ body = Body(Undef, Undef, Undef, Undef, Undef)
    /\ received = body
    /\ failed = 0 /\ pc = "start" /\ verdict = "pending" /\ status = 0
    /\ mode = "none" /\ json = <<>> /\ out = <<>> /\ ends = 0 /\ calls = 0
    /\ sent = Undef /\ retries = 0 /\ delays = <<>> /\ chunks = <<>>
    /\ keyPresent = TRUE /\ sentConfig = Undef /\ answer = Undef
    /\ iLoop = 0 /\ delay = 0 /\ fetchResponse = Undef
    /\ reqs \in [Requests -> {NewRequest(b) : b \in TwoBodies}]

RejectedWith(r, msg) ==
    [r EXCEPT !.status = 400, !.mode = "json", !.json = <<msg>>,
              !.pc = "done", !.verdict = "invalid"]

\* The handler up to its first await.
TwoStart(k) ==
    LET r == reqs[k]
        b == r.body
    IN  /\ r.pc = "start"
        /\ IF ~Truthy(b.prompt)
           THEN Becomes(k, RejectedWith(r, "Prompt is required."), Retries(k))
           ELSE IF GreaterThan(Length(b.prompt), MAX_PROMPT_LENGTH)
           THEN Becomes(k, RejectedWith(r,
                    "Prompt exceeds maximum length of 15000 characters."),
                    Retries(k))
           ELSE IF Truthy(b.history) /\ ~Iterable(b.history)
           THEN Becomes(k, [r EXCEPT !.pc = "unhandled", !.verdict = "threw"],
                        Retries(k))
           ELSE IF Truthy(b.base64Image) /\ V102ImageRejected(b.base64Image)
           THEN Becomes(k, RejectedWith(r, "Invalid image data provided."),
                        Retries(k))
           ELSE Becomes(k,
                    [r EXCEPT !.status = 200, !.mode = "stream",
                              !.calls = @ + 1,
                              !.sent = Arr(Append(V102ChatHistory(b.history),
                                        [role |-> "user",
                                         parts |-> V102UserParts(b)])),
                              !.pc = "calling"],
                    0)
        /\ UNCHANGED singleVars

\* await generateContentStream(...) resolves.
TwoCallReturns(k) ==
    /\ reqs[k].pc = "calling"
    /\ Becomes(k, [reqs[k] EXCEPT !.pc = "streaming"], Retries(k))
    /\ UNCHANGED singleVars

\* await generateContentStream(...) rejects: the catch block of the loop.
TwoCallFails(k) ==
    LET r == reqs[k]
        n == Retries(k) + 1
    IN  /\ r.pc = "calling"
        /\ IF n >= MAX_RETRIES
           THEN Becomes(k, [r EXCEPT !.failed = @ + 1,
                                     !.out = @ \o V102CallErrorMarker,
                                     !.ends = @ + 1,
                                     !.verdict = "call_failed",
                                     !.pc = "done"], n)
           ELSE Becomes(k, [r EXCEPT !.failed = @ + 1,
                                     !.delays = Append(@, V102Delay(n)),
                                     !.pc = "backoff"], n)
        /\ UNCHANGED singleVars

\* The backoff timer fires.
TwoBackoffElapsed(k) ==
    LET r == reqs[k]
    IN  /\ r.pc = "backoff"
        /\ IF Retries(k) < MAX_RETRIES
           THEN Becomes(k, [r EXCEPT !.calls = @ + 1, !.pc = "calling"],
                        Retries(k))
           ELSE Becomes(k, [r EXCEPT !.out = @ \o V102NoStreamMarker,
                                     !.ends = @ + 1,
                                     !.verdict = "call_failed",
                                     !.pc = "done"], Retries(k))
        /\ UNCHANGED singleVars

\* What one iteration of the for await loop writes for chunk c.
V102Written(c) ==
    LET o1 == IF Truthy(c.text) THEN c.text.s ELSE <<>>
        srcs == V102Sources(c.attributions.items)
    IN  IF Truthy(c.attributions) /\ Len(srcs) > 0
        THEN o1 \o V102MetadataMarker(srcs)
        ELSE o1

\* One iteration of the for await loop.
TwoChunk(k) ==
    LET r == reqs[k]
    IN  /\ r.pc = "streaming"
        /\ Len(r.chunks) < MaxChunksTwo
        /\ \E c \in TwoChunks(k) :
              Becomes(k, [r EXCEPT !.chunks = Append(@, c),
                                   !.out = @ \o V102Written(c)], Retries(k))
        /\ UNCHANGED singleVars

\* The stream is exhausted: the finally block's res.end().
TwoStreamEnds(k) ==
    /\ reqs[k].pc = "streaming"
    /\ Becomes(k, [reqs[k] EXCEPT !.ends = @ + 1, !.verdict = "completed",
                                  !.pc = "done"], Retries(k))
    /\ UNCHANGED singleVars

\* The stream's iterator throws: res.end(marker), then res.end().
TwoStreamFails(k) ==
    /\ reqs[k].pc = "streaming"
    /\ Becomes(k, [reqs[k] EXCEPT !.out = @ \o V102StreamErrorMarker,
                                  !.ends = @ + 2,
                                  !.verdict = "stream_failed",
                                  !.pc = "done"], Retries(k))
    /\ UNCHANGED singleVars

StepOf(k) ==
    \/ TwoStart(k)
    \/ TwoCallReturns(k)
    \/ TwoCallFails(k)
    \/ TwoBackoffElapsed(k)
    \/ TwoChunk(k)
    \/ TwoStreamEnds(k)
    \/ TwoStreamFails(k)

NextTwo ==
    \/ \E k \in Requests : TwoStart(k)
    \/ \E k \in Requests : TwoCallReturns(k)
    \/ \E k \in Requests : TwoCallFails(k)
    \/ \E k \in Requests : TwoBackoffElapsed(k)
    \/ \E k \in Requests : TwoChunk(k)
    \/ \E k \in Requests : TwoStreamEnds(k)
    \/ \E k \in Requests : TwoStreamFails(k)

SpecTwo == InitTwo /\ [][NextTwo]_vars


\* ================================================================ claims
ChatV == {"v101", "v102"}
Handled == pc # "start"
Rejected4xx == mode = "json" /\ status \in 400..499
NeverCalled == calls = 0 /\ sent = Undef

\* The prompt bound of each version.
PromptLimit(r) == IF r = "v101" THEN MAX_TOKEN_ESTIMATE ELSE MAX_PROMPT_LENGTH

HistoryTooLong(b) ==
    IsArray(b.history) /\ Len(b.history.items) > MAX_HISTORY_LENGTH
PromptTooLong(b, r) == IsString(b.prompt) /\ b.prompt.n > PromptLimit(r)
NoImage(b) == b.image = Undef /\ b.base64Image = Undef

\* C1: in every revision, validation comes before the streaming headers:
\* no request that validation rejects has had a 200 streaming header sent.
C1_ValidationBeforeHeaders ==
    verdict = "invalid" => ~(mode = "stream" /\ status = 200)

\* C2: versions 1.0.1 and 1.0.2: a request that violates exactly one of the
\* two bounds (history length, prompt length) gets a 4xx and no upstream
\* call.
C2_SingleBoundRejected ==
    ( /\ rev \in ChatV /\ Handled
      /\ IsArray(received.history) /\ IsString(received.prompt)
      /\ NoImage(received)
      /\ HistoryTooLong(received) # PromptTooLong(received, rev) )
    => (Rejected4xx /\ NeverCalled)

\* C3: versions 1.0.1 and 1.0.2: history = [] with an empty or absent
\* prompt is rejected with a client error and never sent upstream.
C3_EmptyRequestRejected ==
    ( /\ rev \in ChatV /\ Handled
      /\ received.history = Hist(0)
      /\ received.prompt \in {Undef, Str(<<>>)} )
    => (Rejected4xx /\ NeverCalled)

\* C4: versions 1.0.1 and 1.0.2: a request whose history is absent or not
\* a sequence, or whose prompt is not a string, gets a 4xx before any
\* upstream call.
C4_IllTypedRejected ==
    ( /\ rev \in ChatV /\ Handled
      /\ (~IsArray(received.history) \/ ~IsString(received.prompt)) )
    => (Rejected4xx /\ NeverCalled)

\* An image field that is supplied but malformed, in the claim's words:
\* 1.0.1: image lacks data or mimeType; 1.0.2: base64Image has no
\* ";base64," separator, or nothing after it, or no mime type (no ":" before
\* the separator, or nothing between the ":" and the separator).
MalformedImage101(img) ==
    img # Undef /\ (img.data = Undef \/ img.mimeType = Undef)
MalformedImage102(url) ==
    /\ IsString(url) /\ url.n > 0
    /\ LET sep == FirstIndex(url.s, ";base64,")
           colon == FirstIndex(url.s, ":")
       IN  \/ sep = 0
           \/ sep = Len(url.s)
           \/ colon = 0 \/ colon > sep
           \/ colon = sep - 1

\* C5: versions 1.0.1 and 1.0.2: a supplied but malformed image is rejected
\* with a client error; no turn is assembled or sent upstream for it.
C5_MalformedImageRejected ==
    ( /\ rev \in ChatV /\ Handled
      /\ \/ rev = "v101" /\ MalformedImage101(received.image)
         \/ rev = "v102" /\ MalformedImage102(received.base64Image) )
    => (Rejected4xx /\ NeverCalled)

\* The case of C6: an accepted request, text only, within the bounds.
C6_TextOnly ==
    /\ rev \in ChatV /\ calls >= 1
    /\ IsArray(received.history)
    /\ Len(received.history.items) <= MAX_HISTORY_LENGTH
    /\ IsString(received.prompt)
    /\ NoImage(received)
\* C6: versions 1.0.1 and 1.0.2: for an accepted request with a text-only
\* string prompt and a history within the bound, the contents sent upstream
\* are the request's history followed by exactly one turn
\* {role: user, parts: [text(prompt)]}, and the request's history is as it
\* arrived.
C6_TextOnlyAppendsOneTurn ==
    C6_TextOnly =>
        /\ sent = Arr(Append(received.history.items,
                             [role |-> "user",
                              parts |-> <<[text |-> received.prompt]>>]))
        /\ body.history = received.history
C6_Witness ==
    /\ C6_TextOnly
    /\ verdict = "completed"
    /\ Len(received.history.items) = 2

\* A well-formed attachment, and the media part it stands for.  1.0.2: a
\* data URL with one ":" and one ";base64," after it, a mime type between
\* the two and a payload after the separator.
WellFormed101(img) == img # Undef /\ Truthy(img.data) /\ Truthy(img.mimeType)
Media101(img) == [inlineData |-> [data |-> img.data, mimeType |-> img.mimeType]]
WellFormed102(url) ==
    /\ IsString(url)
    /\ \E i, j \in 1..Len(url.s) :
        /\ i + 1 < j /\ j < Len(url.s)
        /\ \A k \in 1..Len(url.s) :
            /\ url.s[k] = ":" <=> k = i
            /\ url.s[k] = ";base64," <=> k = j
Media102(url) ==
    LET i == FirstIndex(url.s, ":")
        j == FirstIndex(url.s, ";base64,")
    IN  [inlineData |->
            [mimeType |-> Str(SubSeq(url.s, i + 1, j - 1)),
             data |-> Str(SubSeq(url.s, j + 1, Len(url.s)))]]

\* The history turns a version keeps: all of them in 1.0.1, the last
\* MAX_HISTORY_LENGTH in 1.0.2 (none when the history is absent).
KeptTurns(b) ==
    IF ~IsArray(b.history) THEN <<>>
    ELSE LET n == Len(b.history.items)
         IN  IF n <= MAX_HISTORY_LENGTH THEN b.history.items
             ELSE [k \in 1..MAX_HISTORY_LENGTH |->
                      b.history.items[n - MAX_HISTORY_LENGTH + k]]

\* The case of C7: an accepted request with a text prompt and one
\* well-formed attachment.
C7_TextAndMedia ==
    /\ rev \in ChatV /\ calls >= 1
    /\ IsString(received.prompt)
    /\ \/ rev = "v101" /\ WellFormed101(received.image)
       \/ rev = "v102" /\ WellFormed102(received.base64Image)
\* C7: versions 1.0.1 and 1.0.2: for an accepted request with a text prompt
\* and one well-formed attachment, the contents sent end with a single user
\* turn whose parts are [text part, media part] in that order, and the
\* turns sent are the history turns kept plus that one.
C7_TextAndMediaOneTurn ==
    C7_TextAndMedia =>
        LET media == IF rev = "v101" THEN Media101(received.image)
                     ELSE Media102(received.base64Image)
        IN  /\ IsArray(sent)
            /\ Len(sent.items) = Len(KeptTurns(received)) + 1
            /\ sent.items =
                   Append(KeptTurns(received),
                          [role |-> "user",
                           parts |-> <<[text |-> received.prompt], media>>])
C7_Witness ==
    /\ C7_TextAndMedia
    /\ rev = "v102"
    /\ IsArray(received.history)
    /\ Len(received.history.items) = MAX_HISTORY_LENGTH + 1
    /\ Len(sent.items) = MAX_HISTORY_LENGTH + 1
    /\ Len(sent.items[Len(sent.items)].parts) = 2

\* The texts of the chunks that have a non-empty text, concatenated in the
\* order of the chunks.
RECURSIVE ConcatTexts(_)
ConcatTexts(cs) ==
    IF cs = <<>> THEN <<>>
    ELSE (IF IsString(Head(cs).text) /\ Head(cs).text.n > 0
          THEN Head(cs).text.s ELSE <<>>)
         \o ConcatTexts(Tail(cs))

NoGrounding == \A i \in 1..Len(chunks) : chunks[i].attributions = Undef
SourceMarkers == {"--SOURCES--", "[METADATA]"}
ErrorMarkers ==
    {"--ERROR--", "[STREAM_ERROR]"} \cup
    {R1EmptyHistoryText[1], R1ErrorText[1], R2EmptyHistoryText[1], R2ErrorText[1]}
TextTokens == {"a", "b"}

\* C8: in every revision: when the upstream stream of chunks without
\* grounding metadata ends without a failure, the body written is exactly
\* the concatenation of the chunks' non-empty texts in upstream order, it
\* holds no marker, and the response is ended.
C8_HappyPathRelay ==
    (verdict = "completed" /\ NoGrounding) =>
        /\ out = ConcatTexts(chunks)
        /\ \A i \in 1..Len(out) : out[i] \notin SourceMarkers \cup ErrorMarkers
        /\ mode = "stream" /\ status = 200
        /\ ends >= 1 /\ pc = "done"
C8_Witness ==
    /\ verdict = "completed" /\ NoGrounding
    /\ Len(chunks) = 2
    /\ out = <<"a", "b">>

CarriesSources(c) ==
    /\ Truthy(c.attributions)
    /\ \E i \in 1..Len(c.attributions.items) :
        LET a == c.attributions.items[i]
        IN  a.web # Undef /\ Truthy(a.web.uri) /\ Truthy(a.web.title)

\* C9: versions 1.0.1 and 1.0.2: when chunks of the stream carry grounding
\* sources, the response holds exactly one sources marker and no model
\* text is written after it.
C9_SourcesForwardedOnce ==
    ( /\ rev \in ChatV /\ verdict = "completed"
      /\ \E i \in 1..Len(chunks) : CarriesSources(chunks[i]) )
    => LET at == {i \in 1..Len(out) : out[i] \in SourceMarkers}
       IN  /\ Cardinality(at) = 1
           /\ \A i \in at : \A j \in (i + 1)..Len(out) : out[j] \notin TextTokens

\* C10: version 1.0.2: a request makes at most 3 upstream calls; when the
\* call succeeds after k failures, exactly k + 1 calls were made (k <= 2)
\* and that call's stream is the one forwarded; when every call fails,
\* exactly 3 calls were made.
C10_RetryBound ==
    rev = "v102" =>
        /\ calls <= 3
        /\ (pc = "streaming" \/ verdict \in {"completed", "stream_failed"})
              => (calls = failed + 1 /\ failed <= 2)
        /\ verdict = "completed" =>
              \A i \in 1..Len(out) : out[i] # "[STREAM_ERROR]"
        /\ verdict = "call_failed" => (calls = 3 /\ failed = 3 /\ chunks = <<>>)
C10_Witness ==
    /\ rev = "v102" /\ verdict = "completed"
    /\ failed = 2 /\ calls = 3
    /\ out = <<"a", "b">>

\* C11: version 1.0.2: when every upstream call fails, the body is exactly
\* one terminal [STREAM_ERROR] marker and nothing else (no model text, no
\* sources marker), and the response is closed right after it.
C11_ExhaustedOnlyMarker ==
    (rev = "v102" /\ verdict = "call_failed") =>
        /\ failed = calls
        /\ out = <<"[STREAM_ERROR]", " Gemini API failed: ", "E">>
        /\ chunks = <<>>
        /\ ends = 1 /\ pc = "done"
C11_Witness ==
    /\ rev = "v102" /\ verdict = "call_failed"
    /\ failed = 3 /\ Len(delays) = 2
    /\ out[1] = "[STREAM_ERROR]"

\* One error description: text that holds exactly one error marker, ends
\* with the error's message, and holds no model text or sources marker.
IsErrorDescription(e) ==
    /\ Len(e) >= 2
    /\ e[Len(e)] = "E"
    /\ Cardinality({i \in 1..Len(e) : e[i] \in ErrorMarkers}) = 1
    /\ \A i \in 1..Len(e) : e[i] \notin TextTokens \cup SourceMarkers

\* C12: in every revision: once the call has returned a stream, no further
\* upstream call is made for the request; when consuming the stream fails,
\* what was written stays as written, exactly one error description is
\* written after it, and the response ends.
C12_StreamFailureNotRetried ==
    [][ /\ (pc = "streaming" \/ verdict = "stream_failed") => calls' = calls
        /\ verdict = "stream_failed" => out' = out
        /\ (pc = "streaming" /\ verdict' = "stream_failed") =>
              LET rest == SubSeq(out', Len(out) + 1, Len(out'))
              IN  /\ Len(out') >= Len(out)
                  /\ SubSeq(out', 1, Len(out)) = out
                  /\ \E k \in 0..Len(rest) :
                        /\ \A i \in 1..k : rest[i] \in TextTokens
                        /\ IsErrorDescription(SubSeq(rest, k + 1, Len(rest)))
                  /\ ends' > ends
                  /\ pc' = "done" ]_vars
C12_Witness ==
    /\ verdict = "stream_failed"
    /\ Len(chunks) = 2
    /\ out[1] \in TextTokens
    /\ calls = 1

\* C13: in every revision the response is ended exactly once on every
\* path: by the JSON response of a rejection, or by one res.end of the
\* stream; no end is invoked on a response already ended.
C13_EndedExactlyOnce ==
    pc = "done" => (IF mode = "json" THEN ends = 0 ELSE ends = 1)

\* A request that failed, and a failure the caller can see: an HTTP 4xx or
\* 5xx with a JSON error description, or an error description in the
\* stream, which is then closed.
Failing ==
    verdict \in {"invalid", "call_failed", "stream_failed", "threw",
                 "upstream_failed", "no_data"}
Surfaced ==
    \/ mode = "json" /\ status \in 400..599 /\ json # <<>>
    \/ /\ mode = "stream"
       /\ \E k \in 1..Len(out) : out[k] \in ErrorMarkers
       /\ ends >= 1

\* C14: in every handler of every revision, every failing request surfaces
\* its failure: as an HTTP 4xx/5xx with a JSON body holding an error
\* description, or as an error description written into the started stream
\* before it is closed.
C14_FailureSurfaced == Failing => Surfaced

\* C15: generate-image, second revision: when the provider answers the
\* request's fetch with a status that is not retryable (not 429, below
\* 500), that fetch is the only one, no backoff is waited, and the request
\* is over with an HTTP 5xx whose error text embeds the provider's message.
C15_NonRetryableNotRetried ==
    (/\ rev = "img2"
     /\ failed = 1
     /\ fetchResponse # Undef
     /\ ~fetchResponse.ok
     /\ ~Retryable(fetchResponse.status)) =>
        /\ pc = "done"
        /\ calls = 1 /\ delays = <<>>
        /\ mode = "json" /\ status \in 500..599
        /\ fetchResponse.body = ErrorBody =>
              \E k \in 1..Len(json) : json[k] = "M"

\* C16: in the handlers that retry with backoff (stream-chat 1.0.2,
\* generate-image second revision), the delay waited before the n-th retry
\* is 1000 * 2^(n-1) ms.
C16_BackoffFromOneSecond ==
    rev \in {"v102", "img2"} =>
        \A n \in 1..Len(delays) : delays[n] = 1000 * 2 ^ (n - 1)

\* C17: in the revisions that check the credential at startup, with
\* GEMINI_API_KEY absent no upstream call is made for any request, and
\* every request not rejected by validation is answered with a 500-class
\* JSON message.
C17_NoKeyFailsFast ==
    (rev \in KeyChecked /\ ~keyPresent) =>
        /\ calls = 0
        /\ (pc # "start" /\ verdict # "invalid") =>
              mode = "json" /\ status \in 500..599

\* C18: in every revision of /api/stream-chat, for each of temperature,
\* maxOutputTokens and systemInstruction: a value the body supplies is the
\* value sent in the call's config, and for an absent one a default is
\* sent.
C18_SettingsApplied ==
    (rev \in Revs /\ calls > 0) =>
        /\ sentConfig # Undef
        /\ \A f \in {"temperature", "maxOutputTokens", "systemInstruction"} :
              IF received[f] # Undef
              THEN sentConfig[f] = received[f]
              ELSE sentConfig[f] # Undef

\* C19: in every revision of /api/generate-image the one response is 200
\* with {imageUrl: "data:image/png;base64,<payload>"} or 4xx/5xx with
\* {error: <string>}; a missing prompt gets 400 and no upstream call; an
\* upstream success without image data gets 5xx.
C19_ImageResponseShape ==
    (rev \in ImageRevs /\ pc = "done") =>
        /\ mode = "json"
        /\ \/ /\ status = 200
              /\ DOMAIN answer = {"imageUrl"}
              /\ Len(answer.imageUrl) = 2
              /\ answer.imageUrl[1] = "data:image/png;base64,"
           \/ /\ status \in 400..599
              /\ DOMAIN answer = {"error"}
              /\ answer.error # <<>>
        /\ received.prompt = Undef => status = 400 /\ calls = 0
        /\ (failed = 0 /\ calls > 0 /\ status = 200) =>
              /\ fetchResponse # Undef
              /\ IF rev = "img1"
                 THEN Truthy(fetchResponse.items[1].image.imageBytes)
                 ELSE Truthy(Base64Data(fetchResponse.body))

\* What a version 1.0.2 response body holds, from the request's own
\* stream and outcome alone.
RECURSIVE WrittenFor(_)
WrittenFor(cs) ==
    IF cs = <<>> THEN <<>>
    ELSE V102Written(Head(cs)) \o WrittenFor(Tail(cs))
OwnOutput(r) ==
    WrittenFor(r.chunks) \o
        (CASE r.verdict = "call_failed" -> V102CallErrorMarker
           [] r.verdict = "stream_failed" -> V102StreamErrorMarker
           [] OTHER -> <<>>)
OwnContents(r) ==
    Arr(Append(V102ChatHistory(r.body.history),
               [role |-> "user", parts |-> V102UserParts(r.body)]))

\* Each request's retry count, contents and bytes follow from its own body
\* and its own upstream outcomes; a request that is not over can step.
C20_Own ==
    \A k \in Requests :
        LET r == reqs[k]
        IN  /\ r.retries = r.failed
            /\ r.failed <= 3
            /\ Len(r.delays) = (IF r.failed = 3 THEN 2 ELSE r.failed)
            /\ r.calls = r.failed +
                  (IF r.pc \in {"calling", "streaming"}
                      \/ r.verdict \in {"completed", "stream_failed"}
                   THEN 1 ELSE 0)
            /\ r.sent # Undef => r.sent = OwnContents(r)
            /\ r.out = OwnOutput(r)
            /\ \A n \in 1..Len(r.out) : r.out[n] # Tag(3 - k)
            /\ r.pc \notin {"done", "unhandled"} => ENABLED StepOf(k)

\* A step of one request leaves the other request as it was.
C20_Apart ==
    \A k \in Requests : reqs'[k] # reqs[k] => reqs'[3 - k] = reqs[3 - k]

\* C20: two requests to the version 1.0.2 stream-chat handler, interleaved
\* at their awaits, are independent: each one's retry count, assembled
\* contents and bytes written depend only on its own body and upstream
\* outcomes, neither waits on the other, and no output of one appears in
\* the other's response.
C20_Independent == []C20_Own /\ [][C20_Apart]_vars
C20_Witness ==
    /\ reqs[1].verdict = "call_failed" /\ reqs[1].failed = 3
    /\ reqs[2].verdict = "completed" /\ reqs[2].failed = 1
    /\ reqs[2].out # <<>>
    /\ reqs[1].body # reqs[2].body

\* C21: second revision of /api/stream-chat: with non-empty imageParts, if
\* the last history turn has role user the image parts are appended after
\* that turn's parts and as many turns are sent as the history has;
\* otherwise a trailing user turn holding exactly the image parts is
\* appended.  Every turn, part and image part is sent, in order.
C21_ImagePartsMerged ==
    (/\ rev = "r2" /\ calls > 0
     /\ IsArray(received.imageParts)
     /\ Len(received.imageParts.items) > 0) =>
        LET h == received.history.items
            ips == received.imageParts.items
            n == Len(h)
        IN  /\ IsArray(sent)
            /\ IF h[n].role = "user"
               THEN /\ Len(sent.items) = n
                    /\ \A k \in 1..(n - 1) : sent.items[k] = h[k]
                    /\ sent.items[n].role = "user"
                    /\ sent.items[n].parts = h[n].parts \o ips
               ELSE sent.items = Append(h, [role |-> "user", parts |-> ips])
C21_Witness ==
    /\ rev = "r2" /\ calls > 0
    /\ IsArray(received.imageParts)
    /\ Len(received.imageParts.items) = 2
    /\ Len(received.history.items) = MAX_HISTORY_LENGTH + 1
    /\ Len(sent.items) = MAX_HISTORY_LENGTH + 1
    /\ Len(sent.items[MAX_HISTORY_LENGTH + 1].parts) = 3

\* What /api/chat has answered, given the message and what the fetch gave.
C22_Answered ==
    (rev = "chat" /\ pc = "done") =>
        /\ mode = "json" /\ answer # Undef
        /\ IF ~Truthy(received.message)
           THEN /\ status = 400 /\ calls = 0
                /\ DOMAIN answer = {"error"} /\ answer.error # <<>>
           ELSE /\ calls = 1
                /\ IF \/ fetchResponse = Undef
                      \/ (fetchResponse.ok /\ fetchResponse.body = NotJson)
                   THEN /\ status \in 500..599
                        /\ DOMAIN answer = {"error"} /\ answer.error # <<>>
                   ELSE IF ~fetchResponse.ok
                   THEN /\ status \in 500..599
                        /\ answer.error # <<>>
                        /\ answer.status = fetchResponse.status
                        /\ answer.details = fetchResponse.body
                   ELSE /\ status = 200
                        /\ "reply" \in DOMAIN answer
                        /\ fetchResponse.body = WithReply =>
                              answer.reply = Str(<<"R">>)

\* C22: every POST /api/chat request receives exactly one JSON response:
\* 400 and no fetch for a missing or empty message; an HTTP 5xx carrying
\* the upstream status and body text for an upstream non-success; 200 with
\* reply for an upstream success; 5xx with an error message when the fetch
\* or the parsing throws.
C22_ChatOneResponse ==
    []C22_Answered
    /\ [][(rev = "chat" /\ answer # Undef) => answer' = answer /\ pc' = pc]_vars
C22_Witness ==
    /\ rev = "chat" /\ pc = "done"
    /\ status = 502
    /\ answer.status = 429
    /\ calls = 1

\* C23: in every revision of /api/stream-chat, every out-of-band payload
\* written into the stream (sources marker or error description) begins at
\* the start of a line: it is the first bytes of the body or it comes
\* right after a newline, whatever model text was forwarded before it.
C23_MarkersStartALine ==
    rev \in Revs =>
        \A k \in 1..Len(out) :
            out[k] \in SourceMarkers \cup ErrorMarkers =>
                k = 1 \/ out[k - 1] = "\n"

\* C24: every request to the version 1.0.2 /api/stream-chat handler
\* eventually reaches Done, the response closed, given that each upstream
\* call returns or fails, each backoff timer fires and the stream is
\* finite.
C24_EventuallyDone == <>(pc = "done")

====
